---- MODULE Spec2Model ----
(***************************************************************************)
(* Model of the DICOM viewer: the image loader (dicomImageLoader.js), its  *)
(* worker free list, the decoder createImageObjectFromDicom, the Viewer    *)
(* component (components/viewer.js) and the image sequencer it drives.     *)
(***************************************************************************)
EXTENDS Integers, Sequences, FiniteSets, TLC

(***************************************************************************)
(* Bounds of the model.                                                    *)
(***************************************************************************)
\* longest pixel-data block (in 16-bit samples) of a payload handed to the decoder
MaxPixels == 3

(***************************************************************************)
(* JavaScript values: a number, undefined or NaN.                          *)
(***************************************************************************)
Undefined == [k |-> "undefined", v |-> 0]
NaN == [k |-> "NaN", v |-> 0]
Num(x) == [k |-> "number", v |-> x]
IsNum(x) == x.k = "number"

\* !x of JavaScript: undefined, NaN and 0 are falsy
Falsy(x) == x.k # "number" \/ x.v = 0

\* a + b and a - b on JavaScript values (undefined operands give NaN)
JsAdd(a, b) == IF IsNum(a) /\ IsNum(b) THEN Num(a.v + b.v) ELSE NaN
JsSub(a, b) == IF IsNum(a) /\ IsNum(b) THEN Num(a.v - b.v) ELSE NaN
JsMul(a, b) == IF IsNum(a) /\ IsNum(b) THEN Num(a.v * b.v) ELSE NaN
\* a / 2, kept exact as a fraction num/den
JsHalf(a) == IF IsNum(a) THEN [k |-> "number", num |-> a.v, den |-> 2]
                         ELSE [k |-> "NaN", num |-> 0, den |-> 1]

(***************************************************************************)
(* Payloads: a parsed P10 dataset.  rows/columns/minTag/maxTag are what    *)
(* dataSet.uint16 / dataSet.int16 return (undefined when the tag is        *)
(* absent), photo is what dataSet.string returns, block holds the samples  *)
(* of the pixel-data element and tail the 16-bit words that follow the     *)
(* element up to the end of the underlying buffer.                         *)
(***************************************************************************)
Samples == {-5, 10, 50}
Dims == {Undefined, Num(2)}
Photos == {"MONOCHROME1", "MONOCHROME2", "RGB", "undefined"}
MinTags == {Undefined, Num(0), Num(-5)}
MaxTags == {Undefined, Num(0), Num(50)}
Tails == {<< >>, << -9 >>}

SeqsUpTo(S, n) == UNION {[1..m -> S] : m \in 0..n}

\* the pixel-data blocks: every block of at most n samples, and the 2x2 block
\* of the decoder's reference payload
Blocks(n) == SeqsUpTo(Samples, n) \cup {<<10, 50, -5, 30>>}

\* the payloads whose pixel-data block has at most n samples
Payloads(n) ==
  {[rows |-> r, columns |-> c, photo |-> p, minTag |-> mn, maxTag |-> mx,
    hasPixelData |-> TRUE, block |-> b, tail |-> t] :
      r \in Dims, c \in Dims, p \in Photos, mn \in MinTags, mx \in MaxTags,
      b \in Blocks(n), t \in Tails}
  \cup
  {[rows |-> r, columns |-> c, photo |-> p, minTag |-> mn, maxTag |-> mx,
    hasPixelData |-> FALSE, block |-> << >>, tail |-> << >>] :
      r \in Dims, c \in Dims, p \in Photos, mn \in MinTags, mx \in MaxTags}

\* new Int16Array(dataSet.byteArray.buffer, pixelDataElement.dataOffset):
\* a view from the element's offset to the end of the buffer
PixelView(p) == p.block \o p.tail

RECURSIVE ScanMin(_, _, _)
ScanMin(pd, i, acc) ==
  IF i > Len(pd) THEN acc
  ELSE ScanMin(pd, i + 1, IF pd[i] < acc THEN pd[i] ELSE acc)

RECURSIVE ScanMax(_, _, _)
ScanMax(pd, i, acc) ==
  IF i > Len(pd) THEN acc
  ELSE ScanMax(pd, i + 1, IF pd[i] > acc THEN pd[i] ELSE acc)

\* lines 46-54: the provided value, or the scan when the value is falsy
MinPixelValue(p, pd) ==
  IF Falsy(p.minTag)
    THEN (IF Len(pd) = 0 THEN Undefined ELSE Num(ScanMin(pd, 2, pd[1])))
    ELSE p.minTag

\* lines 57-65
MaxPixelValue(p, pd) ==
  IF Falsy(p.maxTag)
    THEN (IF Len(pd) = 0 THEN Undefined ELSE Num(ScanMax(pd, 2, pd[1])))
    ELSE p.maxTag

\* a decoder that inverts everything but MONOCHROME2
Invert_NotMonochrome2(photoInterp) == photoInterp # "MONOCHROME2"

\* line 36
Invert(photoInterp) == photoInterp = "MONOCHROME1"

\* a decoder that centres the window on half the range
WindowCenter_HalfRange(mx, mn) == JsHalf(JsSub(mx, mn))

\* line 74
WindowCenter(mx, mn) == JsHalf(JsAdd(mx, mn))

\* line 75
WindowWidth(mx, mn) == JsSub(mx, mn)

NoImage ==
  [imageId |-> 0, minPixelValue |-> Undefined, maxPixelValue |-> Undefined,
   windowCenter |-> JsHalf(Undefined), windowWidth |-> NaN,
   pixelData |-> << >>, rows |-> Undefined, columns |-> Undefined,
   height |-> Undefined, width |-> Undefined, invert |-> FALSE,
   sizeInBytes |-> NaN]

\* the image object of lines 68-86
ImageOf(imageId, p) ==
  LET pd == PixelView(p)
      mn == MinPixelValue(p, pd)
      mx == MaxPixelValue(p, pd)
  IN [imageId |-> imageId, minPixelValue |-> mn, maxPixelValue |-> mx,
      windowCenter |-> WindowCenter(mx, mn), windowWidth |-> WindowWidth(mx, mn),
      pixelData |-> pd, rows |-> p.rows, columns |-> p.columns,
      height |-> p.rows, width |-> p.columns, invert |-> Invert(p.photo),
      sizeInBytes |-> JsMul(p.columns, p.rows)]

\* createImageObjectFromDicom: reading .dataOffset of an absent pixel-data
\* element throws a TypeError, otherwise the image object is returned
createImageObjectFromDicom(imageId, p) ==
  IF p.hasPixelData
    THEN [threw |-> FALSE, image |-> ImageOf(imageId, p)]
    ELSE [threw |-> TRUE, image |-> NoImage]

(***************************************************************************)
(* The loader module: config, the free list of web workers, the workers    *)
(* created so far and the promises handed out by loadImage.                *)
(***************************************************************************)
\* most calls of loadImage made directly by the environment
MaxLoads == 3

ConfigKeys == {"useWebworkersToFetch", "useWebworkersToParse"}

\* line 6
defaultConfig == [k \in {"useWebworkersToFetch"} |-> FALSE]

\* Object.assign(target, a, b): own keys of a, then of b, copied onto target
ObjectAssign(target, a, b) ==
  [k \in (DOMAIN target) \cup (DOMAIN a) \cup (DOMAIN b) |->
     IF k \in DOMAIN b THEN b[k]
     ELSE IF k \in DOMAIN a THEN a[k]
     ELSE target[k]]

\* configure(newConfig), lines 18-20
configure(cfg, newConfig) == ObjectAssign(cfg, defaultConfig, newConfig)

\* the objects a caller may pass to configure
NewConfigs == UNION {[K -> BOOLEAN] : K \in SUBSET ConfigKeys}

\* what the network answers to api.fetchDicomFile: a failure, or the bytes of
\* an instance (one well-formed, one without a pixel-data element)
GoodPayload ==
  [rows |-> Num(2), columns |-> Num(2), photo |-> "MONOCHROME2",
   minTag |-> Undefined, maxTag |-> Undefined, hasPixelData |-> TRUE,
   block |-> <<10, 50, -5, 30>>, tail |-> << >>]
BrokenPayload ==
  [rows |-> Num(2), columns |-> Num(2), photo |-> "MONOCHROME2",
   minTag |-> Undefined, maxTag |-> Undefined, hasPixelData |-> FALSE,
   block |-> << >>, tail |-> << >>]
NetAnswers == {"fetchError", "good", "broken"}
NetPayload(a) == IF a = "good" THEN GoodPayload ELSE BrokenPayload

\* a loader that never looks at the free list
AcquiredWorker_AlwaysNew(L) == Len(L.workers) + 1

\* lines 103-104: a unit of the free list, or a new one
AcquiredWorker(L) ==
  IF Len(L.availableWebworkers) > 0
    THEN L.availableWebworkers[Len(L.availableWebworkers)]
    ELSE Len(L.workers) + 1

\* a loader that reads the last free unit without removing it
AfterAcquire_Peek(avail) == avail

\* the free list after lines 103-104 (pop() removes the last element)
AfterAcquire(avail) ==
  IF Len(avail) > 0 THEN SubSeq(avail, 1, Len(avail) - 1) ELSE avail

\* the workers after lines 103-112: a new unit when the free list was empty;
\* the unit's onmessage is the closure of this call and the request is posted
WorkersAfterDispatch(L, w, id) ==
  LET ws == IF w > Len(L.workers)
              THEN Append(L.workers, [onmessage |-> 0, tasks |-> << >>])
              ELSE L.workers
  IN [ws EXCEPT ![w] = [onmessage |-> id, tasks |-> Append(@.tasks, id)]]

\* loadImage(imageId), lines 97-130, on the loader state L; owner and gen say
\* who holds the promise (the sequencer run that admitted it, or a direct caller)
loadImage(L, imageId, owner, gen) ==
  LET id == Len(L.loads) + 1
  IN IF L.config["useWebworkersToFetch"]
       THEN LET w == AcquiredWorker(L)
            IN [L EXCEPT
                 !.availableWebworkers = AfterAcquire(@),
                 !.workers = WorkersAfterDispatch(L, w, id),
                 !.loads = Append(@, [imageId |-> imageId, owner |-> owner,
                                      gen |-> gen, via |-> "worker",
                                      worker |-> w, promise |-> "pending",
                                      fetching |-> FALSE])]
       ELSE [L EXCEPT
              !.loads = Append(@, [imageId |-> imageId, owner |-> owner,
                                   gen |-> gen, via |-> "inline",
                                   worker |-> 0, promise |-> "pending",
                                   fetching |-> TRUE])]

\* the onmessage handler installed by the call that made load h, lines 106-108:
\* it pushes the worker it closed over
OnMessage(avail, loads, h) == Append(avail, loads[h].worker)

\* the promise of an inline load once api.fetchDicomFile has answered,
\* lines 116-123
SettledAs(imageId, answer) ==
  IF answer = "fetchError" THEN "rejected"
  ELSE IF createImageObjectFromDicom(imageId, NetPayload(answer)).threw
    THEN "rejected"
    ELSE "resolved"

(***************************************************************************)
(* The image sequencer (dicomImageSequencer.js): an ordered instance list, *)
(* a cap on simultaneously pending loads, a run-generation token.          *)
(* Instances are numbered 1..instances; a load's imageId is its instance.  *)
(***************************************************************************)
\* longest instance list a series answers with
MaxInstances == 3
\* most times Start is pressed
MaxRuns == 2

NoOutcomes == [i \in 1..MaxInstances |-> 0]

NewSequencer ==
  [maxSimultaneousRequests |-> Undefined, instances |-> 0, nextIdx |-> 1,
   pending |-> {}, gen |-> 0, running |-> FALSE,
   delivered |-> NoOutcomes, failed |-> NoOutcomes]

\* setInstances(list): replaces the list, resets the pending set
setInstances(S, n) ==
  [S EXCEPT !.instances = n, !.nextIdx = 1, !.pending = {},
            !.delivered = NoOutcomes, !.failed = NoOutcomes]

\* an admission may happen: an unadmitted locator remains and fewer than
\* cap operations are pending (a comparison with NaN or undefined is false)
CanAdmit_OffByOne(S) ==
  /\ S.nextIdx <= S.instances
  /\ IsNum(S.maxSimultaneousRequests)
  /\ Cardinality(S.pending) <= S.maxSimultaneousRequests.v

CanAdmit(S) ==
  /\ S.nextIdx <= S.instances
  /\ IsNum(S.maxSimultaneousRequests)
  /\ Cardinality(S.pending) < S.maxSimultaneousRequests.v

\* admits locators in list order while the cap allows: each admission is one
\* call of the loader
RECURSIVE Admit(_, _)
Admit(S, L) ==
  IF CanAdmit(S)
    THEN Admit([S EXCEPT !.nextIdx = @ + 1,
                         !.pending = @ \cup {Len(L.loads) + 1}],
               loadImage(L, S.nextIdx, "sequencer", S.gen))
    ELSE [S |-> S, L |-> L]

\* fetchInstances(onReady): begins admission
fetchInstances(S, L) == Admit([S EXCEPT !.running = TRUE], L)

\* stop(): the pending operations are dropped and the token is incremented
stop(S) == [S EXCEPT !.pending = {}, !.gen = @ + 1, !.running = FALSE]

\* a settled load counts for the sequencer when it ignores the run token
IsCurrent_NoToken(S, l, ld) == ld.owner = "sequencer"

\* a settled load counts for the sequencer when it was admitted by the
\* current run: its token is not stale and it is still pending
IsCurrent(S, l, ld) ==
  /\ ld.owner = "sequencer"
  /\ ld.gen = S.gen
  /\ l \in S.pending

(***************************************************************************)
(* The Viewer component (components/viewer.js).                            *)
(***************************************************************************)
\* the constructor, lines 28-63
NewViewer ==
  [mounted |-> FALSE, getInstancesPromise |-> "none",
   instances |-> 0, numReadyImages |-> 0, numRenderedImages |-> 0,
   maxSimultaneousRequests |-> Num(20),
   useWebworkersToFetch |-> TRUE, useWebworkersToParse |-> TRUE,
   isDisplaying |-> FALSE,
   readyImages |-> << >>, readyImagesCount |-> 0, newSequence |-> FALSE,
   renderedImagesCount |-> 0, metricsInterval |-> FALSE,
   rendering |-> << >>, runs |-> 0,
   received |-> << >>, displayed |-> << >>]

\* texts the user may leave in the 'Max Simultaneous Requests' field
FieldTexts == {"", "0", "1", "2", "-1", "abc"}

\* Number(e.target.value), line 270: the empty text reads as 0, a text
\* that is no numeral as NaN
JsNumber(t) ==
  CASE t = ""   -> Num(0)
    [] t = "0"  -> Num(0)
    [] t = "1"  -> Num(1)
    [] t = "2"  -> Num(2)
    [] t = "-1" -> Num(-1)
    [] OTHER    -> NaN

\* what the field hands to setState, lines 269-271
CapInputs == {JsNumber(t) : t \in FieldTexts}

\* a viewer that displays the newest ready image first
displayNextImage_NewestFirst(V) ==
  IF Len(V.readyImages) > 0
    THEN LET n == Len(V.readyImages)
         IN [V EXCEPT !.readyImages = SubSeq(@, 1, n - 1),
                      !.rendering = Append(@, V.readyImages[n]),
                      !.displayed = Append(@, V.readyImages[n])]
    ELSE [V EXCEPT !.newSequence = TRUE]

\* displayNextImage, lines 127-134; rendering holds the images handed to
\* cornerstone.displayImage whose rendered event has not fired yet, and
\* displayed every image handed to it since the run started, in order
displayNextImage(V) ==
  IF Len(V.readyImages) > 0
    THEN [V EXCEPT !.readyImages = Tail(@),
                   !.rendering = Append(@, Head(V.readyImages)),
                   !.displayed = Append(@, Head(V.readyImages))]
    ELSE [V EXCEPT !.newSequence = TRUE]

\* a viewer that counts an image only when it displays it at once
onImageReady_CountInsideIf(V, img) ==
  LET V1 == [V EXCEPT !.readyImages = Append(@, img),
                      !.received = Append(@, img)]
  IN IF V1.newSequence
       THEN [displayNextImage(V1) EXCEPT !.newSequence = FALSE,
                                         !.readyImagesCount = @ + 1]
       ELSE V1

\* a viewer that goes on treating every image as the first of its sequence
onImageReady_KeepsNewSequence(V, img) ==
  LET V1 == [V EXCEPT !.readyImages = Append(@, img),
                      !.readyImagesCount = @ + 1,
                      !.received = Append(@, img)]
  IN IF V1.newSequence THEN displayNextImage(V1) ELSE V1

\* onImageReady, lines 90-99; received is every image passed to it since
\* the run started, in order
onImageReady(V, img) ==
  LET V1 == [V EXCEPT !.readyImages = Append(@, img),
                      !.readyImagesCount = @ + 1,
                      !.received = Append(@, img)]
  IN IF V1.newSequence
       THEN [displayNextImage(V1) EXCEPT !.newSequence = FALSE]
       ELSE V1

\* updateMetrics, lines 139-151
updateMetrics(V) ==
  [V EXCEPT !.numReadyImages = V.readyImagesCount,
            !.numRenderedImages = V.renderedImagesCount]

\* a viewer that ends the run at its first rendered image
onImageRendered_FinishOnFirst(V) ==
  LET V1 == [V EXCEPT !.renderedImagesCount = @ + 1]
      V2 == IF V1.renderedImagesCount = 1
              THEN [updateMetrics([V1 EXCEPT !.metricsInterval = FALSE])
                      EXCEPT !.isDisplaying = FALSE]
              ELSE V1
  IN displayNextImage(V2)

\* onImageRendered, lines 104-122
onImageRendered(V) ==
  LET V1 == [V EXCEPT !.renderedImagesCount = @ + 1]
      V2 == IF V1.renderedImagesCount = 1 THEN V1
            ELSE IF V1.renderedImagesCount = V1.instances
              THEN [updateMetrics([V1 EXCEPT !.metricsInterval = FALSE])
                      EXCEPT !.isDisplaying = FALSE]
              ELSE V1
  IN displayNextImage(V2)

\* the resets of startDisplayingInstances, lines 157-172 and 183; the
\* records of what the run received and displayed start anew with it
ViewerReset(V) ==
  [V EXCEPT !.newSequence = TRUE, !.renderedImagesCount = 0,
            !.readyImages = << >>, !.readyImagesCount = 0,
            !.numReadyImages = 0, !.numRenderedImages = 0,
            !.isDisplaying = TRUE, !.metricsInterval = TRUE,
            !.runs = @ + 1,
            !.received = << >>, !.displayed = << >>]

\* the sequencer's handling of a settled load: a stale or unknown load is
\* dropped; otherwise the slot is freed, the image goes to onReady (the
\* viewer's onImageReady) or the failure is reported, and the next locator
\* is admitted
OnSettled(S, V, L, l) ==
  LET ld == L.loads[l]
  IN IF ~IsCurrent(S, l, ld) THEN [S |-> S, V |-> V, L |-> L]
     ELSE LET S1 == [S EXCEPT !.pending = @ \ {l}]
              S2 == IF ld.promise = "resolved"
                      THEN [S1 EXCEPT !.delivered[ld.imageId] = @ + 1]
                      ELSE [S1 EXCEPT !.failed[ld.imageId] = @ + 1]
              V2 == IF ld.promise = "resolved"
                      THEN onImageReady(V, ld.imageId) ELSE V
              a == Admit(S2, L)
          IN [S |-> a.S, V |-> V2, L |-> a.L]

(***************************************************************************)
(* api.js: authenticatedFetch and the catalog calls built on it.  Each     *)
(* entry of api.calls is one call of authenticatedFetch: who made it,      *)
(* whether a token existed, the request sent, the status answered, the     *)
(* sign-ins it started, what it returned and how its caller ended.         *)
(***************************************************************************)
\* most calls of authenticatedFetch
MaxCalls == 3

Statuses == {200, 401, 403, 500}

\* response.ok
Ok(status) == status >= 200 /\ status <= 299

Callers == {"fetchProjects", "fetchStudies"}

\* authenticatedFetch up to its await, lines 14-20 and 31-33: with a token
\* the request is sent; without one signInToGoogle is called and the async
\* function returns undefined
authenticatedFetchCall(accessToken) ==
  IF accessToken
    THEN [sent |-> 1, signIn |-> 0, ret |-> "pending"]
    ELSE [sent |-> 0, signIn |-> 1, ret |-> "undefined"]

\* an authenticatedFetch that signs in on every failed response
authenticatedFetchAnswer_SignInOnAnyFailure(status) ==
  IF Ok(status) THEN [signIn |-> 0, ret |-> "response"]
  ELSE IF status = 401 THEN [signIn |-> 1, ret |-> "response"]
  ELSE [signIn |-> 1, ret |-> "threw"]

\* authenticatedFetch after its await, lines 22-30
authenticatedFetchAnswer(status) ==
  IF Ok(status) THEN [signIn |-> 0, ret |-> "response"]
  ELSE IF status = 401 THEN [signIn |-> 1, ret |-> "response"]
  ELSE [signIn |-> 0, ret |-> "threw"]

\* how a catalog call ends once authenticatedFetch has settled (more: the
\* body carries a nextPageToken).  fetchProjects, lines 45-63: reading
\* .json() of undefined or .projects of an error body throws a TypeError.
\* fetchStudies, lines 130-134: the body is returned as the list.
CallerOutcome(caller, ret, status, more) ==
  IF ret = "threw" THEN "Error"
  ELSE IF ret = "undefined" THEN "TypeError"
  ELSE IF caller = "fetchStudies"
    THEN (IF Ok(status) THEN "list" ELSE "errorBodyAsList")
  ELSE IF ~Ok(status) THEN "TypeError"
  ELSE IF more THEN "nextPage"
  ELSE "list"

\* a catalog call calls authenticatedFetch (page p of its listing)
NewCall(A, caller, p) ==
  LET r == authenticatedFetchCall(A.accessToken)
  IN [A EXCEPT !.calls = Append(@,
       [caller |-> caller, page |-> p, hadToken |-> A.accessToken,
        pc |-> IF r.ret = "pending" THEN "awaiting" ELSE "done",
        status |-> 0, sent |-> r.sent, signIn |-> r.signIn, ret |-> r.ret,
        outcome |-> IF r.ret = "pending" THEN "pending"
                    ELSE CallerOutcome(caller, r.ret, 0, FALSE)])]

(***************************************************************************)
(* The Main component (components/main.js): the catalog browser.  Level 1  *)
(* is projects, 2 locations, 3 datasets, 4 dicomStores, 5 studies and 6    *)
(* series.  selected[k] is the selected* state of level k, lists[k] the    *)
(* list state, loading[k] the *Loading state, and requests every call of   *)
(* loadData made so far with the parents it was issued for.                *)
(***************************************************************************)
\* most calls of loadData
MaxCatalogLoads == 7

Levels == 1..6

\* what a loaded list offers for selection
Items == {"a", "b"}

\* useState([]): an empty list; and the list a load for parents answers
EmptyList == [loaded |-> FALSE, parents |-> << >>]
ListFor(parents) == [loaded |-> TRUE, parents |-> parents]

\* the useState declarations, lines 24-54
NewMain ==
  [mounted |-> FALSE,
   selected |-> [k \in Levels |-> "null"],
   lists |-> [k \in Levels |-> EmptyList],
   loading |-> [k \in Levels |-> FALSE],
   requests |-> << >>]

\* loadData up to its await, lines 74-77: the flag is raised and the api
\* call is in flight
loadData(M, k, parents) ==
  [M EXCEPT !.loading[k] = TRUE,
            !.requests = Append(@, [level |-> k, parents |-> parents,
                                    state |-> "pending"])]

\* loadData after its await, lines 77-83: the data are stored when the call
\* succeeded, and the flag is lowered either way
loadDataResume(M, r, ok) ==
  LET q == M.requests[r]
  IN [M EXCEPT !.lists[q.level] = IF ok THEN ListFor(q.parents) ELSE @,
               !.loading[q.level] = FALSE,
               !.requests[r].state = "done"]

\* the parents a load of level k is issued for: the selections above it
ParentsOf(M, k) == SubSeq(M.selected, 1, k - 1)

\* selectProject .. selectSeries, lines 123-152: the item is selected and
\* the list of the next level is loaded for it
select(M, k, item) ==
  LET M1 == [M EXCEPT !.selected[k] = item]
  IN IF k < 6 THEN loadData(M1, k + 1, ParentsOf(M1, k + 1)) ELSE M1

\* clearProject .. clearSeries, lines 154-235: the selections from level k
\* down are dropped, the lists below level k are emptied and the list of
\* level k is loaded again
clear(M, k) ==
  LET M1 == [M EXCEPT
               !.selected = [j \in Levels |-> IF j >= k THEN "null" ELSE @[j]],
               !.lists = [j \in Levels |-> IF j > k THEN EmptyList ELSE @[j]]]
  IN loadData(M1, k, ParentsOf(M, k))

\* the SearchList of level k is on the page, lines 302-331, has items and
\* is not loading
ListShown(M, k) ==
  /\ M.mounted
  /\ (k > 1 => M.selected[k - 1] # "null")
  /\ M.selected[k] = "null"
  /\ M.lists[k].loaded
  /\ ~M.loading[k]

\* the breadcrumb link of level k is on the page, lines 241-289
LinkShown(M, k) == M.mounted /\ M.selected[k] # "null"

VARIABLES
  payload,       \* decoder harness: the payload handed to the decoder
  decodeStatus,  \* decoder harness: "none", "image" or "error"
  image,         \* decoder harness: the image object returned
  config,               \* dicomImageLoader.js: config
  availableWebworkers,  \* dicomImageLoader.js: the free list
  workers,              \* the DicomWorker units created, in creation order
  loads,                \* the calls of loadImage and their promises
  dicomSequencer,       \* viewer.js: this.dicomSequencer
  viewer,               \* viewer.js: the Viewer's state and fields
  api,                  \* api.js: the access token and the fetches made
  lastNewConfig,        \* the keys of the object last passed to configure
  main                  \* main.js: the state of the Main component

decodeVars == <<payload, decodeStatus, image>>
loaderVars == <<config, availableWebworkers, workers, loads>>
uiVars == <<dicomSequencer, viewer>>
apiVars == <<api>>
mainVars == <<main>>
vars == <<payload, decodeStatus, image,
          config, availableWebworkers, workers, loads,
          dicomSequencer, viewer, api, lastNewConfig, main>>

Loader ==
  [config |-> config, availableWebworkers |-> availableWebworkers,
   workers |-> workers, loads |-> loads]

SetLoader(L) ==
  /\ config' = L.config
  /\ availableWebworkers' = L.availableWebworkers
  /\ workers' = L.workers
  /\ loads' = L.loads

DecodeIdle ==
  /\ payload = GoodPayload
  /\ decodeStatus = "none"
  /\ image = NoImage

LoaderInit ==
  /\ config = defaultConfig
  /\ lastNewConfig = [called |-> FALSE, keys |-> {}]
  /\ availableWebworkers = << >>
  /\ workers = << >>
  /\ loads = << >>

UiInit ==
  /\ dicomSequencer = NewSequencer
  /\ viewer = NewViewer
  /\ api = [accessToken |-> TRUE, calls |-> << >>]
  /\ main = NewMain

(***************************************************************************)
(* The decoder applied to every payload of the bounded set.                *)
(***************************************************************************)
DecodeInit ==
  /\ payload \in Payloads(MaxPixels)
  /\ decodeStatus = "none"
  /\ image = NoImage
  /\ LoaderInit
  /\ UiInit

Decode ==
  /\ decodeStatus = "none"
  /\ LET r == createImageObjectFromDicom(1, payload)
     IN /\ decodeStatus' = IF r.threw THEN "error" ELSE "image"
        /\ image' = r.image
  /\ UNCHANGED <<payload, loaderVars, uiVars, apiVars, mainVars, lastNewConfig>>

DecodeNext == Decode

DecodeSpec == DecodeInit /\ [][DecodeNext]_vars

(***************************************************************************)
(* The loader driven directly: configure and loadImage called by a client, *)
(* the network answering inline fetches, workers answering their requests. *)
(***************************************************************************)
Configure ==
  \E nc \in NewConfigs :
    /\ config' = configure(config, nc)
    /\ lastNewConfig' = [called |-> TRUE, keys |-> DOMAIN nc]
    /\ UNCHANGED <<availableWebworkers, workers, loads, decodeVars, uiVars,
                   apiVars, mainVars>>

\* a client calls loadImage for the next image
LoadImageCall ==
  /\ Len(loads) < MaxLoads
  /\ SetLoader(loadImage(Loader, Len(loads) + 1, "client", 0))
  /\ UNCHANGED <<decodeVars, uiVars, apiVars, mainVars, lastNewConfig>>

\* the worker answers the oldest request posted to it with one message; the
\* message is handled by whatever handler the unit carries at that time
WorkerResponse ==
  \E w \in 1..Len(workers) :
    /\ Len(workers[w].tasks) > 0
    /\ workers' = [workers EXCEPT ![w].tasks = Tail(@)]
    /\ availableWebworkers' =
         OnMessage(availableWebworkers, loads, workers[w].onmessage)
    /\ UNCHANGED <<config, loads, decodeVars, uiVars, apiVars, mainVars, lastNewConfig>>

\* api.fetchDicomFile answers an inline load: lines 116-123 settle the
\* promise, and the holder of the promise (the sequencer, if it admitted the
\* load) handles the outcome
FetchResponse ==
  \E l \in 1..Len(loads), answer \in NetAnswers :
    /\ loads[l].fetching
    /\ LET L1 == [Loader EXCEPT
                   !.loads[l].fetching = FALSE,
                   !.loads[l].promise = SettledAs(loads[l].imageId, answer)]
           r == OnSettled(dicomSequencer, viewer, L1, l)
       IN /\ SetLoader(r.L)
          /\ dicomSequencer' = r.S
          /\ viewer' = r.V
    /\ UNCHANGED <<decodeVars, apiVars, mainVars, lastNewConfig>>

LoaderSpecInit == DecodeIdle /\ LoaderInit /\ UiInit

LoaderNext == Configure \/ LoadImageCall \/ WorkerResponse \/ FetchResponse

LoaderSpec == LoaderSpecInit /\ [][LoaderNext]_vars

\* the network and the workers eventually answer
FairLoaderSpec ==
  LoaderSpec /\ WF_vars(WorkerResponse) /\ WF_vars(FetchResponse)

(***************************************************************************)
(* The viewer driving the sequencer and the loader.                        *)
(***************************************************************************)
\* componentDidMount, lines 68-77
componentDidMount ==
  /\ ~viewer.mounted
  /\ viewer.getInstancesPromise = "none"
  /\ viewer' = [viewer EXCEPT !.mounted = TRUE,
                              !.getInstancesPromise = "pending"]
  /\ config' = configure(config,
       [k \in ConfigKeys |-> IF k = "useWebworkersToFetch"
                               THEN viewer.useWebworkersToFetch
                               ELSE viewer.useWebworkersToParse])
  /\ lastNewConfig' = [called |-> TRUE, keys |-> ConfigKeys]
  /\ UNCHANGED <<availableWebworkers, workers, loads, dicomSequencer,
                 decodeVars, apiVars, mainVars>>

\* the metadata request of getInstances answers, lines 199-209: a list of n
\* instances, or a failure that is logged
GetInstancesResponse ==
  /\ viewer.getInstancesPromise = "pending"
  /\ \/ \E n \in 0..MaxInstances :
          viewer' = [viewer EXCEPT !.getInstancesPromise = "resolved",
                                   !.instances = n]
     \/ viewer' = [viewer EXCEPT !.getInstancesPromise = "rejected"]
  /\ UNCHANGED <<loaderVars, dicomSequencer, decodeVars, apiVars, mainVars, lastNewConfig>>

\* the onChange of the 'Max Simultaneous Requests' field, lines 269-271
TextFieldChange ==
  \E v \in CapInputs :
    /\ viewer.mounted
    /\ viewer' = [viewer EXCEPT !.maxSimultaneousRequests = v]
    /\ UNCHANGED <<loaderVars, dicomSequencer, decodeVars, apiVars, mainVars, lastNewConfig>>

\* handleWebworkerFetchChecked, lines 216-225
handleWebworkerFetchChecked ==
  \E checked \in BOOLEAN :
    /\ viewer.mounted
    /\ viewer' = [viewer EXCEPT !.useWebworkersToFetch = checked]
    /\ config' = configure(config,
         [k \in ConfigKeys |-> IF k = "useWebworkersToFetch"
                                 THEN checked
                                 ELSE viewer.useWebworkersToParse])
    /\ lastNewConfig' = [called |-> TRUE, keys |-> ConfigKeys]
    /\ UNCHANGED <<availableWebworkers, workers, loads, dicomSequencer,
                   decodeVars, apiVars, mainVars>>

\* handleWebworkerParseChecked, lines 231-240
handleWebworkerParseChecked ==
  \E checked \in BOOLEAN :
    /\ viewer.mounted
    /\ viewer' = [viewer EXCEPT !.useWebworkersToParse = checked]
    /\ config' = configure(config,
         [k \in ConfigKeys |-> IF k = "useWebworkersToParse"
                                 THEN checked
                                 ELSE viewer.useWebworkersToFetch])
    /\ lastNewConfig' = [called |-> TRUE, keys |-> ConfigKeys]
    /\ UNCHANGED <<availableWebworkers, workers, loads, dicomSequencer,
                   decodeVars, apiVars, mainVars>>

\* the Start button (enabled as lines 295-296 say) and
\* startDisplayingInstances, lines 156-184
startDisplayingInstances ==
  /\ viewer.mounted
  /\ viewer.instances # 0
  /\ ~viewer.isDisplaying
  /\ viewer.runs < MaxRuns
  /\ LET S1 == setInstances(
                 [dicomSequencer EXCEPT !.maxSimultaneousRequests =
                                           viewer.maxSimultaneousRequests],
                 viewer.instances)
         r == fetchInstances(S1, Loader)
     IN /\ dicomSequencer' = r.S
        /\ SetLoader(r.L)
  /\ viewer' = ViewerReset(viewer)
  /\ UNCHANGED <<decodeVars, apiVars, mainVars, lastNewConfig>>

\* the cornerstoneimagerendered event of the image being rendered, line 71
ImageRendered ==
  /\ Len(viewer.rendering) > 0
  /\ viewer' = onImageRendered([viewer EXCEPT !.rendering = Tail(@)])
  /\ UNCHANGED <<loaderVars, dicomSequencer, decodeVars, apiVars, mainVars, lastNewConfig>>

\* stop() of the sequencer, called on a run in progress
Stop ==
  /\ dicomSequencer.running
  /\ dicomSequencer' = stop(dicomSequencer)
  /\ UNCHANGED <<loaderVars, viewer, decodeVars, apiVars, mainVars, lastNewConfig>>

Init == DecodeIdle /\ LoaderInit /\ UiInit

Next ==
  \/ componentDidMount
  \/ GetInstancesResponse
  \/ TextFieldChange
  \/ handleWebworkerFetchChecked
  \/ startDisplayingInstances
  \/ FetchResponse
  \/ WorkerResponse
  \/ ImageRendered
  \/ Stop

Spec == Init /\ [][Next]_vars

\* the viewer whose runs nobody stops, where every image handed to
\* cornerstone.displayImage eventually fires its cornerstoneimagerendered
\* event
DisplayNext ==
  \/ componentDidMount
  \/ GetInstancesResponse
  \/ TextFieldChange
  \/ handleWebworkerFetchChecked
  \/ startDisplayingInstances
  \/ FetchResponse
  \/ WorkerResponse
  \/ ImageRendered

FairDisplaySpec == Init /\ [][DisplayNext]_vars /\ WF_vars(ImageRendered)

\* componentWillUnmount, lines 82-84: cancels the instance-list request
\* and nothing else
componentWillUnmount ==
  /\ viewer.mounted
  /\ viewer' = [viewer EXCEPT
                  !.mounted = FALSE,
                  !.getInstancesPromise =
                     IF @ = "pending" THEN "canceled" ELSE @]
  /\ UNCHANGED <<loaderVars, dicomSequencer, decodeVars, apiVars, mainVars, lastNewConfig>>

\* the metadata request answers after cancel(): the cancelable promise
\* rejects with isCanceled set, which the catch of lines 205-209 ignores
CanceledInstancesResponse ==
  /\ viewer.getInstancesPromise = "canceled"
  /\ viewer' = [viewer EXCEPT !.getInstancesPromise = "rejected"]
  /\ UNCHANGED <<loaderVars, dicomSequencer, decodeVars, apiVars, mainVars, lastNewConfig>>

\* a tick of the metrics interval set at line 183
MetricsTick ==
  /\ viewer.metricsInterval
  /\ viewer' = updateMetrics(viewer)
  /\ UNCHANGED <<loaderVars, dicomSequencer, decodeVars, apiVars, mainVars, lastNewConfig>>

\* the life of a Viewer from mount to unmount and after
LifecycleNext ==
  \/ componentDidMount
  \/ componentWillUnmount
  \/ GetInstancesResponse
  \/ CanceledInstancesResponse
  \/ handleWebworkerFetchChecked
  \/ startDisplayingInstances
  \/ FetchResponse
  \/ WorkerResponse
  \/ ImageRendered
  \/ MetricsTick

LifecycleSpec == Init /\ [][LifecycleNext]_vars

\* the configuration of a mounted viewer under its two checkboxes
ConfigNext ==
  \/ componentDidMount
  \/ handleWebworkerFetchChecked
  \/ handleWebworkerParseChecked

ConfigSpec == Init /\ [][ConfigNext]_vars

(***************************************************************************)
(* The catalog calls of api.js against the network and the token store.    *)
(***************************************************************************)
\* fetchProjects() or fetchStudies(...) is called
ApiCall ==
  \E caller \in Callers :
    /\ Len(api.calls) < MaxCalls
    /\ api' = NewCall(api, caller, 1)
    /\ UNCHANGED <<decodeVars, loaderVars, uiVars, mainVars, lastNewConfig>>

\* the network answers a request: authenticatedFetch resumes, then its
\* caller; fetchProjects goes on to the next page when the body names one
ApiAnswer ==
  \E i \in 1..Len(api.calls), status \in Statuses, more \in BOOLEAN :
    /\ api.calls[i].pc = "awaiting"
    /\ more => /\ api.calls[i].caller = "fetchProjects"
               /\ Ok(status)
               /\ Len(api.calls) < MaxCalls
    /\ LET f == api.calls[i]
           r == authenticatedFetchAnswer(status)
           o == CallerOutcome(f.caller, r.ret, status, more)
           A1 == [api EXCEPT !.calls[i] =
                    [f EXCEPT !.pc = "done", !.status = status,
                              !.signIn = @ + r.signIn, !.ret = r.ret,
                              !.outcome = o]]
       IN api' = IF o = "nextPage"
                   THEN NewCall(A1, f.caller, f.page + 1)
                   ELSE A1
    /\ UNCHANGED <<decodeVars, loaderVars, uiVars, mainVars, lastNewConfig>>

\* the token store changes: a sign-in completes, or the token is removed
TokenChange ==
  /\ api' = [api EXCEPT !.accessToken = ~@]
  /\ UNCHANGED <<decodeVars, loaderVars, uiVars, mainVars, lastNewConfig>>

ApiInit ==
  /\ DecodeIdle /\ LoaderInit
  /\ dicomSequencer = NewSequencer
  /\ viewer = NewViewer
  /\ api \in {[accessToken |-> t, calls |-> << >>] : t \in BOOLEAN}
  /\ main = NewMain

ApiNext == ApiCall \/ ApiAnswer \/ TokenChange

ApiSpec == ApiInit /\ [][ApiNext]_vars

(***************************************************************************)
(* The catalog browser of main.js against the user and the network.        *)
(***************************************************************************)
\* the mount effect, lines 58-67: a signed-in user gets the projects
\* loaded, anyone else is sent to sign in
MainMount ==
  /\ ~main.mounted
  /\ main' = IF api.accessToken
               THEN loadData([main EXCEPT !.mounted = TRUE], 1, << >>)
               ELSE [main EXCEPT !.mounted = TRUE]
  /\ UNCHANGED <<decodeVars, loaderVars, uiVars, apiVars, lastNewConfig>>

\* a click on an item of the SearchList of level k
SelectAt(k) ==
  \E item \in Items :
    /\ ListShown(main, k)
    /\ (k < 6 => Len(main.requests) < MaxCatalogLoads)
    /\ main' = select(main, k, item)
    /\ UNCHANGED <<decodeVars, loaderVars, uiVars, apiVars, lastNewConfig>>

\* a click on the breadcrumb link of level k
ClearAt(k) ==
  /\ LinkShown(main, k)
  /\ Len(main.requests) < MaxCatalogLoads
  /\ main' = clear(main, k)
  /\ UNCHANGED <<decodeVars, loaderVars, uiVars, apiVars, lastNewConfig>>

selectProject == SelectAt(1)
selectLocation == SelectAt(2)
selectDataset == SelectAt(3)
selectDicomStore == SelectAt(4)
selectStudy == SelectAt(5)
selectSeries == SelectAt(6)

clearProject == ClearAt(1)
clearLocation == ClearAt(2)
clearDataset == ClearAt(3)
clearDicomStore == ClearAt(4)
clearStudy == ClearAt(5)
clearSeries == ClearAt(6)

\* an api call of loadData settles, in any order among those in flight:
\* it resolves with the list asked for, or it rejects
LoadDataResponse ==
  \E r \in DOMAIN main.requests, ok \in BOOLEAN :
    /\ main.requests[r].state = "pending"
    /\ main' = loadDataResume(main, r, ok)
    /\ UNCHANGED <<decodeVars, loaderVars, uiVars, apiVars, lastNewConfig>>

MainInit == ApiInit

MainNext ==
  \/ MainMount
  \/ selectProject
  \/ selectLocation
  \/ selectDataset
  \/ selectDicomStore
  \/ selectStudy
  \/ selectSeries
  \/ clearProject
  \/ clearLocation
  \/ clearDataset
  \/ clearDicomStore
  \/ clearStudy
  \/ clearSeries
  \/ LoadDataResponse

MainSpec == MainInit /\ [][MainNext]_vars

(***************************************************************************)
(* Properties of the loader.                                               *)
(***************************************************************************)
Range(s) == {s[i] : i \in DOMAIN s}

\* C1: every call of loadImage eventually yields an outcome (its promise is
\* resolved with an image or rejected with an error), whether the fetch runs
\* inline or is dispatched to a worker, given that the network and the
\* workers answer.
C1_EveryLoadSettles ==
  \A l \in 1..MaxLoads :
    (l <= Len(loads)) ~> (l <= Len(loads) /\ loads[l].promise # "pending")

\* C5: a load dispatched while the free list is non-empty takes its unit from
\* the free list and creates none; a unit is created only when the free list
\* is empty.
C5_PoolReuse ==
  [][/\ (Len(workers') > Len(workers) => Len(availableWebworkers) = 0)
     /\ ((Len(loads') = Len(loads) + 1 /\ loads'[Len(loads')].via = "worker"
          /\ Len(availableWebworkers) > 0)
         => /\ Len(workers') = Len(workers)
            /\ loads'[Len(loads')].worker \in Range(availableWebworkers)
            /\ Len(availableWebworkers') = Len(availableWebworkers) - 1
            /\ loads'[Len(loads')].worker \notin Range(availableWebworkers'))]_vars

\* a unit that was released has been handed to a later load
C5_Witness ==
  \E l1, l2 \in 1..Len(loads) :
    /\ l1 < l2
    /\ loads[l1].via = "worker" /\ loads[l2].via = "worker"
    /\ loads[l1].worker = loads[l2].worker

\* C6: every unit in the free list carries no message handler and no task
\* state left over from the task it last served.
C6_FreeUnitsReset ==
  \A i \in DOMAIN availableWebworkers :
    /\ workers[availableWebworkers[i]].onmessage = 0
    /\ workers[availableWebworkers[i]].tasks = << >>

\* C7: a unit is never serving two tasks at once, is never in the free list
\* while it serves a task, and is never in the free list twice.
C7_FreeListConsistent ==
  /\ \A w \in DOMAIN workers : Len(workers[w].tasks) <= 1
  /\ \A i \in DOMAIN availableWebworkers :
       workers[availableWebworkers[i]].tasks = << >>
  /\ \A i, j \in DOMAIN availableWebworkers :
       i # j => availableWebworkers[i] # availableWebworkers[j]

\* a reused unit is back in the free list while another unit serves a task
C7_Witness ==
  /\ C5_Witness
  /\ Len(availableWebworkers) > 0
  /\ \E w \in DOMAIN workers : Len(workers[w].tasks) = 1

(***************************************************************************)
(* Properties of the sequencer and the viewer.                             *)
(***************************************************************************)
Min(a, b) == IF a < b THEN a ELSE b

RECURSIVE SumTo(_, _)
SumTo(f, n) == IF n = 0 THEN 0 ELSE f[n] + SumTo(f, n - 1)

\* the loader operations admitted by the current run and not completed
PendingOps ==
  {l \in 1..Len(loads) :
     /\ loads[l].owner = "sequencer"
     /\ loads[l].gen = dicomSequencer.gen
     /\ loads[l].promise = "pending"}

\* C2: with a cap c >= 1 and a list of n instances, the number of admitted
\* but not completed loader operations never exceeds min(c, n).
C2_PendingWithinCap ==
  (IsNum(dicomSequencer.maxSimultaneousRequests)
   /\ dicomSequencer.maxSimultaneousRequests.v >= 1)
  => /\ Cardinality(dicomSequencer.pending)
          <= Min(dicomSequencer.maxSimultaneousRequests.v,
                 dicomSequencer.instances)
     /\ Cardinality(PendingOps)
          <= Min(dicomSequencer.maxSimultaneousRequests.v,
                 dicomSequencer.instances)

\* the cap, not the list, is what holds the third instance back, and it was
\* admitted when an earlier operation completed
C2_Witness ==
  /\ dicomSequencer.maxSimultaneousRequests = Num(2)
  /\ dicomSequencer.instances = 3
  /\ dicomSequencer.nextIdx = 4
  /\ Cardinality(PendingOps) = 2

AllAccounted ==
  /\ dicomSequencer.running
  /\ \A i \in 1..dicomSequencer.instances :
       dicomSequencer.delivered[i] + dicomSequencer.failed[i] = 1

\* C3: within a run no instance yields more than one outcome (an onReady
\* delivery or a reported failure), the viewer's count of onReady calls is
\* the number of deliveries, and once every instance is accounted for the
\* onReady calls plus the failures number n.
C3_OneOutcomePerInstance ==
  /\ \A i \in 1..MaxInstances :
       dicomSequencer.delivered[i] + dicomSequencer.failed[i] <= 1
  /\ viewer.readyImagesCount = SumTo(dicomSequencer.delivered, MaxInstances)
  /\ (AllAccounted =>
        viewer.readyImagesCount + SumTo(dicomSequencer.failed, MaxInstances)
          = dicomSequencer.instances)

\* a run of three instances all accounted for, some delivered, some failed
C3_Witness ==
  /\ AllAccounted
  /\ dicomSequencer.instances = 3
  /\ viewer.readyImagesCount >= 1
  /\ SumTo(dicomSequencer.failed, MaxInstances) >= 1

\* C4: stop() retracts no delivery, and after it no onReady call occurs for
\* the stopped run: every onReady call is for a load the current, running
\* run admitted.
C4_NoDeliveryAfterStop ==
  [][/\ (dicomSequencer'.gen > dicomSequencer.gen => viewer' = viewer)
     /\ ((~dicomSequencer.running /\ ~dicomSequencer'.running)
         => /\ viewer'.readyImagesCount = viewer.readyImagesCount
            /\ dicomSequencer'.delivered = dicomSequencer.delivered)
     /\ (viewer'.readyImagesCount > viewer.readyImagesCount
         => /\ dicomSequencer.running
            /\ \E l \in 1..Len(loads) :
                 /\ loads[l].promise = "pending"
                 /\ loads'[l].promise = "resolved"
                 /\ loads[l].gen = dicomSequencer.gen)]_vars

\* an operation in flight at stop() has completed with an image afterwards,
\* and the image was not delivered
C4_Witness ==
  /\ ~dicomSequencer.running
  /\ \E l \in 1..Len(loads) :
       /\ loads[l].owner = "sequencer"
       /\ loads[l].gen < dicomSequencer.gen
       /\ loads[l].promise = "resolved"
       /\ dicomSequencer.delivered[loads[l].imageId] = 0
       /\ viewer.readyImagesCount < viewer.instances

(***************************************************************************)
(* Properties of the decoder.                                              *)
(***************************************************************************)
IsMinOf(x, pd) ==
  /\ \E i \in DOMAIN pd : pd[i] = x
  /\ \A i \in DOMAIN pd : x <= pd[i]

IsMaxOf(x, pd) ==
  /\ \E i \in DOMAIN pd : pd[i] = x
  /\ \A i \in DOMAIN pd : x >= pd[i]

\* C8: the record's minimum (maximum) is the value the dataset provides when
\* it provides one, and the true minimum (maximum) of the pixel buffer when
\* it does not.
C8_MinMaxProvidedOrScanned ==
  decodeStatus = "image" =>
    /\ (payload.minTag # Undefined => image.minPixelValue = payload.minTag)
    /\ (payload.maxTag # Undefined => image.maxPixelValue = payload.maxTag)
    /\ ((payload.minTag = Undefined /\ Len(image.pixelData) > 0)
        => /\ IsNum(image.minPixelValue)
           /\ IsMinOf(image.minPixelValue.v, image.pixelData))
    /\ ((payload.maxTag = Undefined /\ Len(image.pixelData) > 0)
        => /\ IsNum(image.maxPixelValue)
           /\ IsMaxOf(image.maxPixelValue.v, image.pixelData))

\* C9: windowCenter = (maxValue + minValue) / 2 and windowWidth = maxValue -
\* minValue; with no min/max tags every sample lies between minValue and
\* maxValue; samples [10, 50, -5, 30] give -5, 50, 22.5 and 55.
C9_WindowFromMinMax ==
  decodeStatus = "image" =>
    /\ ((IsNum(image.minPixelValue) /\ IsNum(image.maxPixelValue))
        => /\ image.windowCenter.k = "number"
           /\ 2 * image.windowCenter.num =
                image.windowCenter.den
                  * (image.maxPixelValue.v + image.minPixelValue.v)
           /\ image.windowWidth =
                Num(image.maxPixelValue.v - image.minPixelValue.v))
    /\ (~(IsNum(image.minPixelValue) /\ IsNum(image.maxPixelValue))
        => /\ image.windowCenter.k = "NaN"
           /\ image.windowWidth = NaN)
    /\ ((payload.minTag = Undefined /\ payload.maxTag = Undefined)
        => \A i \in DOMAIN image.pixelData :
             /\ image.minPixelValue.v <= image.pixelData[i]
             /\ image.pixelData[i] <= image.maxPixelValue.v)
    /\ ((payload.block = <<10, 50, -5, 30>> /\ payload.tail = << >>
         /\ payload.minTag = Undefined /\ payload.maxTag = Undefined)
        => /\ image.minPixelValue = Num(-5)
           /\ image.maxPixelValue = Num(50)
           /\ 2 * image.windowCenter.num = 45 * image.windowCenter.den
           /\ image.windowWidth = Num(55))

\* the payload of the example has been decoded
C9_Witness ==
  /\ decodeStatus = "image"
  /\ payload.block = <<10, 50, -5, 30>> /\ payload.tail = << >>
  /\ payload.minTag = Undefined /\ payload.maxTag = Undefined
  /\ payload.rows = Num(2) /\ payload.columns = Num(2)
  /\ image.windowWidth = Num(55)

\* C10: the image is inverted exactly when the photometric interpretation
\* is MONOCHROME1, and a payload differing only in its photometric
\* interpretation decodes to the same pixel buffer, min/max and window.
C10_InvertOnlyMonochrome1 ==
  decodeStatus = "image" =>
    /\ image.invert = (payload.photo = "MONOCHROME1")
    /\ \A ph \in Photos :
         LET o == createImageObjectFromDicom(1, [payload EXCEPT !.photo = ph])
         IN /\ ~o.threw
            /\ o.image.invert = (ph = "MONOCHROME1")
            /\ o.image.pixelData = image.pixelData
            /\ o.image.minPixelValue = image.minPixelValue
            /\ o.image.maxPixelValue = image.maxPixelValue
            /\ o.image.windowCenter = image.windowCenter
            /\ o.image.windowWidth = image.windowWidth

\* a MONOCHROME1 payload with samples has been decoded to an inverted image
C10_Witness ==
  /\ decodeStatus = "image"
  /\ payload.photo = "MONOCHROME1"
  /\ payload.block = <<10, 50, -5, 30>>
  /\ image.invert

\* the payload declares more samples (rows x columns) than its pixel-data
\* block holds
DeclaredExceedsBlock ==
  /\ payload.hasPixelData
  /\ IsNum(payload.rows) /\ IsNum(payload.columns)
  /\ payload.rows.v * payload.columns.v > Len(payload.block)

\* C11: decoding a payload whose declared rows x columns x 2 exceeds the
\* byte length of its pixel-data block ends in an error and produces no
\* image record.
C11_RejectsShortPixelData ==
  (decodeStatus # "none" /\ DeclaredExceedsBlock)
    => (decodeStatus = "error" /\ image = NoImage)

\* a required tag (rows, columns, photometric interpretation, pixel data)
\* is absent from the payload
MissingRequiredTag ==
  \/ payload.rows = Undefined
  \/ payload.columns = Undefined
  \/ payload.photo = "undefined"
  \/ ~payload.hasPixelData

\* C12: decoding a payload that lacks a required tag ends in an error and
\* produces no image record; no record has an undefined width or height.
C12_RejectsMissingTags ==
  /\ ((decodeStatus # "none" /\ MissingRequiredTag)
        => (decodeStatus = "error" /\ image = NoImage))
  /\ (decodeStatus = "image"
        => (image.width # Undefined /\ image.height # Undefined))

(***************************************************************************)
(* Properties of authenticatedFetch and the catalog calls.                 *)
(***************************************************************************)
Calls == {api.calls[i] : i \in DOMAIN api.calls}

\* C13: a fetch answered 401 starts the sign-in, is not retried, and fails:
\* its caller receives an error, never a response or a list read from one.
C13_UnauthorizedFetchFails ==
  \A f \in Calls :
    (f.pc = "done" /\ f.status = 401)
      => /\ f.signIn = 1
         /\ f.sent = 1
         /\ f.ret = "threw"
         /\ f.outcome \in {"Error", "TypeError"}

\* C14: the sign-in is started exactly when no credential exists or the
\* answer is 401; every other failed answer makes the fetch throw and
\* starts no sign-in.
C14_SignInOnlyWhenUnauthorized ==
  \A f \in Calls :
    /\ f.signIn <= 1
    /\ (f.signIn = 1 <=> (~f.hadToken \/ (f.pc = "done" /\ f.status = 401)))
    /\ ((f.pc = "done" /\ f.hadToken /\ ~Ok(f.status) /\ f.status # 401)
          => (f.ret = "threw" /\ f.signIn = 0 /\ f.outcome = "Error"))

\* one fetch was answered 403 and threw, another was answered 401 and
\* started the sign-in, a third found no credential
C14_Witness ==
  /\ \E f \in Calls : f.pc = "done" /\ f.status = 403 /\ f.ret = "threw"
                      /\ f.signIn = 0
  /\ \E f \in Calls : f.pc = "done" /\ f.status = 401 /\ f.signIn = 1
  /\ \E f \in Calls : ~f.hadToken /\ f.signIn = 1

\* C15: a fetch made without a credential starts the sign-in, sends no
\* request and raises no error, neither in authenticatedFetch nor in the
\* catalog call that reads the response.
C15_NoCredentialNoError ==
  \A f \in Calls :
    ~f.hadToken
      => /\ f.signIn = 1
         /\ f.sent = 0
         /\ f.ret # "threw"
         /\ f.outcome \notin {"Error", "TypeError"}

\* ---------------------------------------------------------------------
\* Offload flags of the loader configuration

\* the effective value of an option as loadImage and the decode page read
\* it: an option the configuration object does not carry reads as
\* undefined, which is falsy
Flag(cfg, k) == k \in DOMAIN cfg /\ cfg[k]

\* C16: with no explicit configuration, and for every option the last
\* configure call did not mention, the fetch-offload and decode-offload
\* flags are both true.
C16_DefaultsOffloaded ==
  \A k \in ConfigKeys :
    (~lastNewConfig.called \/ k \notin lastNewConfig.keys) => Flag(config, k)

\* C17: the offload flags are independently toggleable: a configure call
\* changes the effective value of no option it does not mention, whether
\* it comes from a checkbox handler or is made with one option only.
C17_FlagsIndependent ==
  [][\A k \in ConfigKeys :
       Flag(config', k) # Flag(config, k) => k \in lastNewConfig'.keys]_vars

\* ---------------------------------------------------------------------
\* The display queue of the viewer

\* C18: the viewer displays the images it receives first-in-first-out:
\* what it has handed to the rendering surface in a run, followed by what
\* it still queues, is exactly what onImageReady received, in that order,
\* and every image received is eventually handed over, given that each
\* displayed image fires its rendered event.
C18_DisplaysInDeliveryOrder ==
  /\ [](viewer.received = viewer.displayed \o viewer.readyImages)
  /\ \A k \in 1..MaxInstances :
       (Len(viewer.received) >= k) ~> (Len(viewer.displayed) >= k)

\* a run that received its images out of instance order: the first has
\* been rendered, the second was taken from the queue and displayed, the
\* third waits in the queue
C18_Witness ==
  /\ Len(viewer.received) = 3
  /\ viewer.received[1] # 1
  /\ Len(viewer.displayed) = 2
  /\ viewer.renderedImagesCount = 1
  /\ Len(viewer.readyImages) = 1

\* ---------------------------------------------------------------------
\* The end of a run

\* C19: a run in which instances failed does not hang: once every instance
\* is accounted for, at least one of them as a failure, and every image
\* that did load has been displayed and rendered, the viewer is no longer
\* marked as displaying, so that Start is available again.
C19_FailedRunFinishes ==
  (/\ AllAccounted
   /\ SumTo(dicomSequencer.failed, MaxInstances) >= 1
   /\ viewer.readyImages = << >>
   /\ viewer.rendering = << >>)
  => ~viewer.isDisplaying

\* ---------------------------------------------------------------------
\* The concurrency cap

\* C20: whatever the user typed in the 'Max Simultaneous Requests' field,
\* the cap the viewer hands to the sequencer at start is a positive
\* integer.
C20_CapIsPositive ==
  dicomSequencer.running
  => /\ IsNum(dicomSequencer.maxSimultaneousRequests)
     /\ dicomSequencer.maxSimultaneousRequests.v >= 1

\* ---------------------------------------------------------------------
\* Starting a run

\* C21: a run is started only with a non-empty instance list and only when
\* no earlier run is active: at the step that starts a run, no loader
\* operation of the sequencer is pending, an earlier run was stopped or
\* has accounted for all its instances, and nothing of it is queued or
\* being rendered.
C21_StartOnlyWhenIdle ==
  [][viewer'.runs > viewer.runs
     => /\ viewer.instances >= 1
        /\ PendingOps = {}
        /\ dicomSequencer.pending = {}
        /\ (viewer.runs >= 1 => (~dicomSequencer.running \/ AllAccounted))
        /\ viewer.readyImages = << >>
        /\ viewer.rendering = << >>]_vars

\* a second run has started and received an image
C21_Witness ==
  /\ viewer.runs = 2
  /\ viewer.isDisplaying
  /\ Len(viewer.received) >= 1

\* ---------------------------------------------------------------------
\* The last image of a run

\* C22: in a run over n >= 1 instances, once the n-th image has been
\* rendered the metrics interval is stopped, the metrics show the final
\* counts and the viewer is no longer marked as displaying.
C22_LastImageEndsRun ==
  (/\ viewer.runs >= 1
   /\ viewer.instances >= 1
   /\ viewer.renderedImagesCount = viewer.instances)
  => /\ ~viewer.metricsInterval
     /\ viewer.numRenderedImages = viewer.renderedImagesCount
     /\ viewer.numReadyImages = viewer.readyImagesCount
     /\ ~viewer.isDisplaying

\* ---------------------------------------------------------------------
\* Unmounting

\* the Viewer has been mounted and unmounted
Unmounted == ~viewer.mounted /\ viewer.getInstancesPromise # "none"

\* C23: after the viewer is unmounted its state no longer changes and no
\* image is displayed: the instance list, the metrics and the displaying
\* mark stay as they were and nothing more is handed to the rendering
\* surface.
C23_NoChangeAfterUnmount ==
  [][Unmounted
     => /\ viewer'.instances = viewer.instances
        /\ viewer'.numReadyImages = viewer.numReadyImages
        /\ viewer'.numRenderedImages = viewer.numRenderedImages
        /\ viewer'.isDisplaying = viewer.isDisplaying
        /\ viewer'.displayed = viewer.displayed]_vars

\* ---------------------------------------------------------------------
\* The pixel buffer

\* C24: the pixel buffer of a decoded image is exactly the payload's
\* pixel-data block: it holds rows x columns samples when the block does,
\* and a minimum or maximum found by scanning is one of the block, so that
\* what follows the block in the buffer has no influence.
C24_PixelBufferIsTheBlock ==
  decodeStatus = "image" =>
    /\ image.pixelData = payload.block
    /\ ((IsNum(payload.rows) /\ IsNum(payload.columns)
         /\ Len(payload.block) = payload.rows.v * payload.columns.v)
        => Len(image.pixelData) = payload.rows.v * payload.columns.v)
    /\ ((Falsy(payload.minTag) /\ Len(payload.block) > 0)
        => /\ IsNum(image.minPixelValue)
           /\ IsMinOf(image.minPixelValue.v, payload.block))
    /\ ((Falsy(payload.maxTag) /\ Len(payload.block) > 0)
        => /\ IsNum(image.maxPixelValue)
           /\ IsMaxOf(image.maxPixelValue.v, payload.block))

\* ---------------------------------------------------------------------
\* The viewer between events

\* C25: at most one image is with the rendering surface and not yet
\* rendered; newSequence is true only when the ready queue is empty and
\* nothing is being rendered; and renderedImagesCount <= readyImagesCount
\* <= n throughout a run.
C25_OneImageAtATime ==
  /\ Len(viewer.rendering) <= 1
  /\ (viewer.newSequence
        => (viewer.readyImages = << >> /\ viewer.rendering = << >>))
  /\ viewer.renderedImagesCount <= viewer.readyImagesCount
  /\ viewer.readyImagesCount <= viewer.instances

\* an image is being rendered after an earlier one, while another waits in
\* the queue
C25_Witness ==
  /\ Len(viewer.rendering) = 1
  /\ Len(viewer.readyImages) >= 1
  /\ viewer.renderedImagesCount >= 1
  /\ ~viewer.newSequence

\* ---------------------------------------------------------------------
\* The catalog browser

\* the loads of level k that are in flight
InFlight(k) ==
  {r \in DOMAIN main.requests :
     main.requests[r].level = k /\ main.requests[r].state = "pending"}

\* C26: the list held at each level is empty or the answer to the load
\* issued for the parents now selected, and a level's loading flag is
\* false only when no load of that level is in flight: the answer to a
\* superseded load overwrites neither.
C26_ListsMatchSelection ==
  \A k \in Levels :
    /\ (main.lists[k].loaded
          => main.lists[k].parents = ParentsOf(main, k))
    /\ (~main.loading[k] => InFlight(k) = {})

====
